---- MODULE Spec2Model ----
(***************************************************************************)
(* WareBalancerAI: the analytical pipeline of src/utils.py (demand         *)
(* aggregation, stock pressure index, transfer recommendation, metrics,   *)
(* what-if simulation, input validation) and the way src/app.py calls it.  *)
(*                                                                         *)
(* Tables (pandas DataFrames) are sequences of records, one record per    *)
(* row.  Every numeric cell is a fixed-point number with Scale steps per   *)
(* unit (the value v is stored as v * Scale), so that fractional reorder   *)
(* levels and SPI values exist in the model; Storage_Cost_per_Unit cells   *)
(* have CostScale steps per unit.  Values that the code rounds to two      *)
(* decimals are stored in hundredths; Units, which the code converts with  *)
(* int(), is a plain integer.  An exception that escapes a call is kept in *)
(* `raised` and stops the caller.                                          *)
(***************************************************************************)
EXTENDS Integers, Sequences, FiniteSets, TLC

VARIABLES
    warehouse_data,      \* the caller's warehouse table
    orders_data,         \* the caller's orders table
    warehouse_columns,   \* column names present in warehouse_data
    orders_columns,      \* column names present in orders_data
    tiePick,             \* how this build's non-stable sort leaves equal keys
    computed,            \* names of the results whose call was made
    validation,          \* result of validate_data
    demand_data,         \* result of calculate_demand(orders_data)
    merged_data,         \* result of compute_spi(warehouse_data, demand_data)
    recommendations,     \* result of recommend_transfers(merged_data)
    metrics,             \* result of calculate_metrics(merged_data)
    demand_change,       \* demand percentage: the slider of main, or the
                         \* scenario's when one scenario is run alone
    cost_change,         \* cost percentage, likewise
    sim_orders,          \* result of simulate_demand_change
    sim_warehouse,       \* result of simulate_cost_change
    sim_demand,          \* result of calculate_demand(sim_orders)
    sim_merged,          \* result of compute_spi(sim_warehouse, sim_demand)
    sim_metrics,         \* result of calculate_metrics(sim_merged)
    raised,              \* the exception that escaped a call, "" while none did
    pc,                  \* where the caller stands
    scenario_idx         \* passes of main's scenario loop that have run

vars == <<warehouse_data, orders_data, warehouse_columns, orders_columns,
          tiePick, computed, validation, demand_data, merged_data,
          recommendations, metrics, demand_change, cost_change, sim_orders,
          sim_warehouse, sim_demand, sim_merged, sim_metrics, raised, pc,
          scenario_idx>>

----------------------------------------------------------------------------
(* Bounds of the model *)

\* fixed-point steps per unit
Scale == 2
\* most rows of a warehouse table and of an orders table in the main flow
MaxRows == 2
MaxOrders == 2
\* most rows of the warehouse and orders tables behind a pressure table that
\* several receivers and donors share
MaxPressureRows == 3
MaxPressureOrders == 1
\* most rows of the warehouse and orders tables of a what-if scenario
MaxScenarioRows == 2
MaxScenarioOrders == 2
\* most rows of a warehouse table whose categories calculate_metrics ranks
MaxMetricsRows == 4
\* most rows of the warehouse and orders tables that main loads
MaxMainRows == 2
MaxMainOrders == 1
\* most rows of a warehouse table handed to validate_data
MaxValidateRows == 2
\* most columns missing from a table handed to validate_data
MaxMissing == 2

----------------------------------------------------------------------------
(* Helpers on numbers and sequences *)

Abs(x) == IF x < 0 THEN -x ELSE x

Min(a, b) == IF a <= b THEN a ELSE b

Max(a, b) == IF a >= b THEN a ELSE b

\* round(num / den, 2) in hundredths, ties to even, for den > 0
Round2(num, den) ==
    LET r == 100 * num
        q == r \div den
        m == r % den
    IN  IF 2 * m < den THEN q
        ELSE IF 2 * m > den THEN q + 1
        ELSE IF q % 2 = 0 THEN q ELSE q + 1

\* round(num / den) as an integer, ties to even, for den > 0
Round0(num, den) ==
    LET q == num \div den
        m == num % den
    IN  IF 2 * m < den THEN q
        ELSE IF 2 * m > den THEN q + 1
        ELSE IF q % 2 = 0 THEN q ELSE q + 1

\* int(num / den): truncation toward zero, for den > 0
IntTrunc(num, den) == IF num >= 0 THEN num \div den ELSE -((-num) \div den)

RECURSIVE SumSeq(_)
SumSeq(s) == IF s = <<>> THEN 0 ELSE Head(s) + SumSeq(Tail(s))

RECURSIVE Concat(_)
Concat(ss) == IF ss = <<>> THEN <<>> ELSE Head(ss) \o Concat(Tail(ss))

\* the positions of s, in order, whose element satisfies Test
RECURSIVE SelectIdx(_, _, _)
SelectIdx(s, Test(_), i) ==
    IF i > Len(s) THEN <<>>
    ELSE IF Test(s[i]) THEN <<i>> \o SelectIdx(s, Test, i + 1)
    ELSE SelectIdx(s, Test, i + 1)

SeqsUpTo(S, n) == UNION {[1..k -> S] : k \in 0..n}

----------------------------------------------------------------------------
(* Input tables *)

NaN == "NaN"

\* alphabetical order of the key values, as groupby(sort=True) orders them
LocationsSorted == <<"Delhi", "Mumbai">>
CategoriesSorted == <<"Apparel", "Electronics", "Furniture", "Grocery">>

Locations == {LocationsSorted[i] : i \in DOMAIN LocationsSorted}
\* the categories of the main-flow tables, and all of them
Categories == {"Apparel", "Electronics"}
AllCategories == {CategoriesSorted[i] : i \in DOMAIN CategoriesSorted}

WarehouseOf == [Mumbai |-> "W001", Delhi |-> "W002"]

\* Storage_Cost_per_Unit cells carry four more decimal digits than the other
\* cells, so that a cost multiplied by (1 + pct) stays exact
CostScale == Scale * 100 * 100

\* Storage_Cost_per_Unit of a location: 25.5 and 30
CostOf == [Mumbai |-> (25 * Scale + 1) * 100 * 100,
           Delhi |-> (30 * Scale) * 100 * 100]

\* Reorder_Level of a category: 1, 1 + 1/Scale, 2 and 1
ReorderOf == [Electronics |-> Scale, Apparel |-> Scale + 1,
              Furniture |-> 2 * Scale, Grocery |-> Scale]

StockLevels == {Scale, 3 * Scale}

WarehouseRow(loc, cat, stock) ==
    [Warehouse_ID |-> WarehouseOf[loc], Location |-> loc,
     Product_Category |-> cat, Current_Stock_Units |-> stock,
     Reorder_Level |-> ReorderOf[cat], Storage_Cost_per_Unit |-> CostOf[loc]]

\* the warehouse rows of the categories cats
WarehouseRows(cats) ==
    {WarehouseRow(loc, cat, stock) :
        loc \in Locations, cat \in cats, stock \in StockLevels}

\* a date cell: the string read from the file, or the parsed timestamp
DateStr(d) == [kind |-> "str", day |-> d]
Timestamp(d) == [kind |-> "datetime64", day |-> d]

OrderRow(id, origin, cat) ==
    [Order_ID |-> id, Order_Date |-> DateStr(id), Origin |-> origin,
     Product_Category |-> cat, Order_Value_INR |-> 1000 * Scale]

\* orders tables of at most n rows over the categories cats: Order_ID numbers
\* the rows of the file
OrdersTables(cats, n) ==
    {[i \in DOMAIN ks |-> OrderRow(i, ks[i][1], ks[i][2])] :
        ks \in SeqsUpTo(Locations \X cats, n)}

required_warehouse_cols ==
    <<"Warehouse_ID", "Location", "Product_Category", "Current_Stock_Units",
      "Reorder_Level", "Storage_Cost_per_Unit">>

required_orders_cols ==
    <<"Order_ID", "Order_Date", "Origin", "Product_Category",
      "Order_Value_INR">>

SeqToSet(s) == {s[i] : i \in DOMAIN s}

----------------------------------------------------------------------------
(* calculate_demand *)

\* pd.to_datetime on one cell
to_datetime(cell) == Timestamp(cell.day)

\* the orders table after line 18 assigned the parsed column to it
orders_after_calculate_demand(orders) ==
    [i \in DOMAIN orders |->
        [orders[i] EXCEPT !.Order_Date = to_datetime(orders[i].Order_Date)]]

\* calculate_demand as it would be if it summed Order_Value_INR per group
calculate_demand_sum(orders) ==
    LET Group(o, c) ==
            {i \in DOMAIN orders :
                orders[i].Origin = o /\ orders[i].Product_Category = c}
        RECURSIVE Total(_)
        Total(I) == IF I = {} THEN 0
                    ELSE LET i == CHOOSE i \in I : TRUE
                         IN  orders[i].Order_Value_INR + Total(I \ {i})
        RowOf(o, c) ==
            IF Group(o, c) = {} THEN <<>>
            ELSE <<[Origin |-> o, Product_Category |-> c,
                    Monthly_Demand |-> Total(Group(o, c))]>>
    IN  Concat([i \in DOMAIN LocationsSorted |->
            Concat([j \in DOMAIN CategoriesSorted |->
                RowOf(LocationsSorted[i], CategoriesSorted[j])])])

\* groupby(['Origin', 'Product_Category']).size(): one row per pair that
\* occurs, in key order, with the number of orders of the pair
calculate_demand(orders) ==
    LET Group(o, c) ==
            {i \in DOMAIN orders :
                orders[i].Origin = o /\ orders[i].Product_Category = c}
        RowOf(o, c) ==
            IF Group(o, c) = {} THEN <<>>
            ELSE <<[Origin |-> o, Product_Category |-> c,
                    Monthly_Demand |-> Cardinality(Group(o, c)) * Scale]>>
    IN  Concat([i \in DOMAIN LocationsSorted |->
            Concat([j \in DOMAIN CategoriesSorted |->
                RowOf(LocationsSorted[i], CategoriesSorted[j])])])

----------------------------------------------------------------------------
(* compute_spi *)

\* one output row of the merge, with Monthly_Demand filled and SPI added
MergedRow(w, origin, monthly) ==
    [Warehouse_ID |-> w.Warehouse_ID, Location |-> w.Location,
     Product_Category |-> w.Product_Category,
     Current_Stock_Units |-> w.Current_Stock_Units,
     Reorder_Level |-> w.Reorder_Level,
     Storage_Cost_per_Unit |-> w.Storage_Cost_per_Unit,
     Origin |-> origin, Monthly_Demand |-> monthly,
     SPI |-> (w.Current_Stock_Units - w.Reorder_Level) - monthly]

\* compute_spi as it would be with how='inner': unmatched rows are dropped
compute_spi_inner(warehouse, demand) ==
    LET Matches(w) ==
            SelectIdx(demand,
                      LAMBDA d : d.Origin = w.Location
                                 /\ d.Product_Category = w.Product_Category, 1)
        RowsOf(w) ==
            [k \in DOMAIN Matches(w) |->
                MergedRow(w, demand[Matches(w)[k]].Origin,
                          demand[Matches(w)[k]].Monthly_Demand)]
    IN  Concat([i \in DOMAIN warehouse |-> RowsOf(warehouse[i])])

\* left merge on (Location, Product_Category) = (Origin, Product_Category):
\* a warehouse row yields one row per matching demand row, or one row with
\* missing demand (filled with 0) when nothing matches
compute_spi(warehouse, demand) ==
    LET Matches(w) ==
            SelectIdx(demand,
                      LAMBDA d : d.Origin = w.Location
                                 /\ d.Product_Category = w.Product_Category, 1)
        RowsOf(w) ==
            IF Matches(w) = <<>> THEN <<MergedRow(w, NaN, 0)>>
            ELSE [k \in DOMAIN Matches(w) |->
                    MergedRow(w, demand[Matches(w)[k]].Origin,
                              demand[Matches(w)[k]].Monthly_Demand)]
    IN  Concat([i \in DOMAIN warehouse |-> RowsOf(warehouse[i])])

----------------------------------------------------------------------------
(* recommend_transfers *)

\* sort_values on the SPI column with the default kind='quicksort', which is
\* not stable: the keys come out in order, rows with equal keys in an order
\* the build decides (tiePick: as they stood, or reversed)
RECURSIVE sort_values(_, _)
sort_values(s, ascending) ==
    IF s = <<>> THEN <<>>
    ELSE LET Leads(i) ==
                 \A j \in DOMAIN s :
                     IF ascending THEN s[i].SPI <= s[j].SPI
                     ELSE s[i].SPI >= s[j].SPI
             Leaders == {i \in DOMAIN s : Leads(i)}
             b == CHOOSE i \in Leaders :
                     \A j \in Leaders :
                         IF tiePick = "first" THEN i <= j ELSE i >= j
             rest == [k \in 1..(Len(s) - 1) |-> IF k < b THEN s[k] ELSE s[k + 1]]
         IN  <<s[b]>> \o sort_values(rest, ascending)

\* the rows holding SPI < 0, in table order
shortages_of(merged) ==
    LET idx == SelectIdx(merged, LAMBDA r : r.SPI < 0, 1)
    IN  [k \in DOMAIN idx |-> merged[idx[k]]]

\* the rows holding SPI > 0, in table order
surplus_of(merged) ==
    LET idx == SelectIdx(merged, LAMBDA r : r.SPI > 0, 1)
    IN  [k \in DOMAIN idx |-> merged[idx[k]]]

\* recommendation_for as it would be if Units took the larger imbalance
recommendation_for_max(row, surplus) ==
    LET idx == SelectIdx(surplus,
                   LAMBDA r : r.Product_Category = row.Product_Category, 1)
        same_cat == [k \in DOMAIN idx |-> surplus[idx[k]]]
        donor == sort_values(same_cat, FALSE)[1]
        units == Max(Abs(row.SPI), donor.SPI)
        savings == units * (donor.Storage_Cost_per_Unit
                            - row.Storage_Cost_per_Unit)
    IN  IF same_cat = <<>> THEN <<>>
        ELSE <<[Product_Category |-> row.Product_Category,
                From_Warehouse |-> donor.Warehouse_ID,
                From_Location |-> donor.Location,
                To_Warehouse |-> row.Warehouse_ID,
                To_Location |-> row.Location,
                Units |-> IntTrunc(units, Scale),
                Estimated_Saving_INR |-> Round2(savings, Scale * CostScale),
                Donor_SPI |-> Round2(donor.SPI, Scale),
                Receiver_SPI |-> Round2(row.SPI, Scale)]>>

\* recommendation_for as it would be if the sort were ascending
recommendation_for_ascending(row, surplus) ==
    LET idx == SelectIdx(surplus,
                   LAMBDA r : r.Product_Category = row.Product_Category, 1)
        same_cat == [k \in DOMAIN idx |-> surplus[idx[k]]]
        donor == sort_values(same_cat, TRUE)[1]
        units == Min(Abs(row.SPI), donor.SPI)
        savings == units * (donor.Storage_Cost_per_Unit
                            - row.Storage_Cost_per_Unit)
    IN  IF same_cat = <<>> THEN <<>>
        ELSE <<[Product_Category |-> row.Product_Category,
                From_Warehouse |-> donor.Warehouse_ID,
                From_Location |-> donor.Location,
                To_Warehouse |-> row.Warehouse_ID,
                To_Location |-> row.Location,
                Units |-> IntTrunc(units, Scale),
                Estimated_Saving_INR |-> Round2(savings, Scale * CostScale),
                Donor_SPI |-> Round2(donor.SPI, Scale),
                Receiver_SPI |-> Round2(row.SPI, Scale)]>>

\* one pass of the loop body for the shortage row `row`: no recommendation,
\* or the one built from the donor that sorts first
recommendation_for(row, surplus) ==
    LET idx == SelectIdx(surplus,
                   LAMBDA r : r.Product_Category = row.Product_Category, 1)
        same_cat == [k \in DOMAIN idx |-> surplus[idx[k]]]
        donor == sort_values(same_cat, FALSE)[1]
        units == Min(Abs(row.SPI), donor.SPI)
        savings == units * (donor.Storage_Cost_per_Unit
                            - row.Storage_Cost_per_Unit)
    IN  IF same_cat = <<>> THEN <<>>
        ELSE <<[Product_Category |-> row.Product_Category,
                From_Warehouse |-> donor.Warehouse_ID,
                From_Location |-> donor.Location,
                To_Warehouse |-> row.Warehouse_ID,
                To_Location |-> row.Location,
                Units |-> IntTrunc(units, Scale),
                Estimated_Saving_INR |-> Round2(savings, Scale * CostScale),
                Donor_SPI |-> Round2(donor.SPI, Scale),
                Receiver_SPI |-> Round2(row.SPI, Scale)]>>

\* recommend_transfers as it would be if each transfer were taken off the
\* donor's surplus before the next receiver is matched
RECURSIVE transfers_decrementing(_, _)
transfers_decrementing(shortages, surplus) ==
    IF shortages = <<>> THEN <<>>
    ELSE LET made == recommendation_for(Head(shortages), surplus)
             d == CHOOSE j \in DOMAIN surplus :
                     /\ surplus[j].Warehouse_ID = made[1].From_Warehouse
                     /\ surplus[j].Location = made[1].From_Location
                     /\ surplus[j].Product_Category = made[1].Product_Category
                     /\ Round2(surplus[j].SPI, Scale) = made[1].Donor_SPI
             left == [surplus EXCEPT ![d].SPI = @ - made[1].Units * Scale]
         IN  IF made = <<>>
             THEN transfers_decrementing(Tail(shortages), surplus)
             ELSE made \o transfers_decrementing(Tail(shortages),
                                                  surplus_of(left))

recommend_transfers_decrementing(merged) ==
    transfers_decrementing(shortages_of(merged), surplus_of(merged))

\* recommend_transfers as it would be if it visited the worst shortage first
recommend_transfers_worst_first(merged) ==
    LET shortages == sort_values(shortages_of(merged), TRUE)
        surplus == surplus_of(merged)
    IN  Concat([k \in DOMAIN shortages |->
                    recommendation_for(shortages[k], surplus)])

recommend_transfers(merged) ==
    LET shortages == shortages_of(merged)
        surplus == surplus_of(merged)
    IN  Concat([k \in DOMAIN shortages |->
                    recommendation_for(shortages[k], surplus)])

----------------------------------------------------------------------------
(* calculate_metrics *)

\* the grouping as it would be if it kept the largest SPI of each category
min_spi_by_category_max(merged) ==
    LET Group(c) == {i \in DOMAIN merged : merged[i].Product_Category = c}
        MaxOf(c) == CHOOSE m \in {merged[i].SPI : i \in Group(c)} :
                        \A i \in Group(c) : m >= merged[i].SPI
        EntryOf(c) == IF Group(c) = {} THEN <<>>
                      ELSE <<[Product_Category |-> c, SPI |-> MaxOf(c)]>>
    IN  Concat([j \in DOMAIN CategoriesSorted |-> EntryOf(CategoriesSorted[j])])

\* groupby('Product_Category')['SPI'].min(): one entry per category that
\* occurs, in key order
min_spi_by_category(merged) ==
    LET Group(c) == {i \in DOMAIN merged : merged[i].Product_Category = c}
        MinOf(c) == CHOOSE m \in {merged[i].SPI : i \in Group(c)} :
                        \A i \in Group(c) : m <= merged[i].SPI
        EntryOf(c) == IF Group(c) = {} THEN <<>>
                      ELSE <<[Product_Category |-> c, SPI |-> MinOf(c)]>>
    IN  Concat([j \in DOMAIN CategoriesSorted |-> EntryOf(CategoriesSorted[j])])

\* Series.head(n)
head(s, n) == SubSeq(s, 1, Min(n, Len(s)))

\* calculate_metrics as it would be if it reported 0 for an empty table
calculate_metrics_guarded(merged) ==
    LET total_shortages == Len(shortages_of(merged))
        total_warehouses ==
            Cardinality({merged[i].Warehouse_ID : i \in DOMAIN merged})
        total_skus == Len(merged)
        sum_spi == SumSeq([i \in DOMAIN merged |-> merged[i].SPI])
        recs == recommend_transfers(merged)
        total_savings ==
            SumSeq([k \in DOMAIN recs |-> recs[k].Estimated_Saving_INR])
        risk_categories ==
            head(sort_values(min_spi_by_category(merged), TRUE), 3)
    IN  [raised |-> "",
         returned |->
           <<[total_warehouses |-> total_warehouses,
              total_skus |-> total_skus,
              shortage_percentage |->
                  IF total_skus = 0 THEN 0
                  ELSE Round2(total_shortages * 100, total_skus),
              average_spi |->
                  IF total_skus = 0 THEN 0
                  ELSE Round2(sum_spi, total_skus * Scale),
              potential_cost_saving |-> total_savings,
              top_risk_categories |-> risk_categories]>>]

calculate_metrics(merged) ==
    LET total_shortages == Len(shortages_of(merged))
        total_warehouses ==
            Cardinality({merged[i].Warehouse_ID : i \in DOMAIN merged})
        total_skus == Len(merged)
        sum_spi == SumSeq([i \in DOMAIN merged |-> merged[i].SPI])
        recs == recommend_transfers(merged)
        total_savings ==
            SumSeq([k \in DOMAIN recs |-> recs[k].Estimated_Saving_INR])
        risk_categories ==
            head(sort_values(min_spi_by_category(merged), TRUE), 3)
    IN  IF total_skus = 0
        THEN [raised |-> "ZeroDivisionError", returned |-> <<>>]
        ELSE [raised |-> "",
              returned |->
                <<[total_warehouses |-> total_warehouses,
                   total_skus |-> total_skus,
                   shortage_percentage |-> Round2(total_shortages * 100,
                                                  total_skus),
                   average_spi |-> Round2(sum_spi, total_skus * Scale),
                   potential_cost_saving |-> total_savings,
                   top_risk_categories |-> risk_categories]>>]

----------------------------------------------------------------------------
(* simulate_demand_change, simulate_cost_change *)

\* A percentage argument pct is carried as the integer p with pct = p / 100.

\* the sequences DataFrame.sample(n, replace=True) can return
sample_with_replacement(t, n) ==
    {[k \in 1..n |-> t[pos[k]]] : pos \in [1..n -> DOMAIN t]}

\* the sequences DataFrame.sample(n) can return: n rows at distinct positions
sample(t, n) ==
    {[k \in 1..n |-> t[pos[k]]] :
        pos \in {f \in [1..n -> DOMAIN t] :
                    \A a, b \in 1..n : a # b => f[a] # f[b]}}

\* change_amount as it would be with round() in place of int()
change_amount_rounded(num_orders, p) == Round0(num_orders * Abs(p), 100)

\* int(num_orders * abs(demand_change_pct))
change_amount_of(num_orders, p) == IntTrunc(num_orders * Abs(p), 100)

\* simulate_demand_change as it would be without the test for pct = 0, a
\* zero percentage taking the removal branch
simulate_demand_change_unguarded(orders, p) ==
    LET num_orders == Len(orders)
        change_amount == change_amount_of(num_orders, p)
        Returned(T) == {[raised |-> "", returned |-> <<t>>] : t \in T}
        Raised == {[raised |-> "ValueError", returned |-> <<>>]}
    IN  IF p > 0
        THEN Returned({orders \o a :
                 a \in sample_with_replacement(orders,
                          Min(change_amount, num_orders))})
        ELSE IF Max(num_orders - change_amount, 1) > num_orders
             THEN Raised
             ELSE Returned(sample(orders, Max(num_orders - change_amount, 1)))

\* every outcome of simulate_demand_change(orders, p / 100): a returned table,
\* or the ValueError of sampling from a table that has too few rows
simulate_demand_change(orders, p) ==
    LET num_orders == Len(orders)
        change_amount == change_amount_of(num_orders, p)
        Returned(T) == {[raised |-> "", returned |-> <<t>>] : t \in T}
        Raised == {[raised |-> "ValueError", returned |-> <<>>]}
    IN  IF p = 0 THEN Returned({orders})
        ELSE IF p > 0
        THEN Returned({orders \o a :
                 a \in sample_with_replacement(orders,
                          Min(change_amount, num_orders))})
        ELSE IF Max(num_orders - change_amount, 1) > num_orders
             THEN Raised
             ELSE Returned(sample(orders, Max(num_orders - change_amount, 1)))

\* simulate_cost_change as it would be if it took the percentage of the
\* cost instead of adding it
simulate_cost_change_delta(warehouse, p) ==
    IF p # 0
    THEN [i \in DOMAIN warehouse |->
            [warehouse[i] EXCEPT !.Storage_Cost_per_Unit =
                (warehouse[i].Storage_Cost_per_Unit * p) \div 100]]
    ELSE warehouse

simulate_cost_change(warehouse, p) ==
    IF p # 0
    THEN [i \in DOMAIN warehouse |->
            [warehouse[i] EXCEPT !.Storage_Cost_per_Unit =
                (warehouse[i].Storage_Cost_per_Unit * (100 + p)) \div 100]]
    ELSE warehouse

----------------------------------------------------------------------------
(* validate_data *)

\* the entries of `required` that are not in `columns`, in list order
missing_cols(required, columns) ==
    LET idx == SelectIdx(required, LAMBDA c : c \notin columns, 1)
    IN  [k \in DOMAIN idx |-> required[idx[k]]]

MissingWarehouse(cols) == [msg |-> "Missing warehouse columns", cols |-> cols]
MissingOrders(cols) == [msg |-> "Missing orders columns", cols |-> cols]
NegativeStock ==
    [msg |-> "Negative stock units found in warehouse data", cols |-> <<>>]
NegativeCost ==
    [msg |-> "Negative storage costs found in warehouse data", cols |-> <<>>]

\* (table[col] < 0).any()
any_negative(table, col) == \E i \in DOMAIN table : table[i][col] < 0

\* validate_data as it would be if each check ran only while no earlier
\* check had failed
validate_data_first_error(w_columns, warehouse, o_columns, orders) ==
    LET missing_warehouse_cols == missing_cols(required_warehouse_cols, w_columns)
        missing_orders_cols == missing_cols(required_orders_cols, o_columns)
        e1 == IF missing_warehouse_cols # <<>>
              THEN <<MissingWarehouse(missing_warehouse_cols)>> ELSE <<>>
        e2 == IF e1 = <<>> /\ missing_orders_cols # <<>>
              THEN e1 \o <<MissingOrders(missing_orders_cols)>> ELSE e1
        e3 == IF e2 = <<>> /\ "Current_Stock_Units" \in w_columns
                 /\ any_negative(warehouse, "Current_Stock_Units")
              THEN e2 \o <<NegativeStock>> ELSE e2
        e4 == IF e3 = <<>> /\ "Storage_Cost_per_Unit" \in w_columns
                 /\ any_negative(warehouse, "Storage_Cost_per_Unit")
              THEN e3 \o <<NegativeCost>> ELSE e3
    IN  [raised |-> "", valid |-> (Len(e4) = 0), errors |-> e4]

\* e1..e4: the errors list after each of the four checks; raised names the
\* exception that escaped the call, "" when it returned
validate_data(w_columns, warehouse, o_columns, orders) ==
    LET missing_warehouse_cols == missing_cols(required_warehouse_cols, w_columns)
        missing_orders_cols == missing_cols(required_orders_cols, o_columns)
        e1 == IF missing_warehouse_cols # <<>>
              THEN <<MissingWarehouse(missing_warehouse_cols)>> ELSE <<>>
        e2 == IF missing_orders_cols # <<>>
              THEN e1 \o <<MissingOrders(missing_orders_cols)>> ELSE e1
        e3 == IF "Current_Stock_Units" \in w_columns
                 /\ any_negative(warehouse, "Current_Stock_Units")
              THEN e2 \o <<NegativeStock>> ELSE e2
        e4 == IF "Storage_Cost_per_Unit" \in w_columns
                 /\ any_negative(warehouse, "Storage_Cost_per_Unit")
              THEN e3 \o <<NegativeCost>> ELSE e3
    IN  [raised |-> "", valid |-> (Len(e4) = 0), errors |-> e4]

----------------------------------------------------------------------------
(* The caller: initial states *)

TiePicks == {"first", "last"}

AllWarehouseColumns == SeqToSet(required_warehouse_cols)
AllOrdersColumns == SeqToSet(required_orders_cols)

\* no result bound yet
NoResults ==
    /\ computed = {}
    /\ raised = ""
    /\ validation = [raised |-> "", valid |-> FALSE, errors |-> <<>>]
    /\ demand_data = <<>>
    /\ merged_data = <<>>
    /\ recommendations = <<>>
    /\ metrics = <<>>
    /\ sim_orders = <<>>
    /\ sim_warehouse = <<>>
    /\ sim_demand = <<>>
    /\ sim_merged = <<>>
    /\ sim_metrics = <<>>
    /\ scenario_idx = 0

\* nothing called yet, and the caller about to call the stages
NothingCalled ==
    /\ NoResults
    /\ demand_change = 0
    /\ cost_change = 0
    /\ pc = "stages"

\* two well-formed tables as read from the files
Init ==
    /\ warehouse_data \in SeqsUpTo(WarehouseRows(Categories), MaxRows)
    /\ orders_data \in OrdersTables(Categories, MaxOrders)
    /\ warehouse_columns = AllWarehouseColumns
    /\ orders_columns = AllOrdersColumns
    /\ tiePick \in TiePicks
    /\ NothingCalled

----------------------------------------------------------------------------
(* The caller: the main flow, src/app.py lines 168-171 *)

inputs == <<warehouse_data, orders_data, warehouse_columns, orders_columns,
            tiePick>>
scenario == <<demand_change, cost_change, sim_orders, sim_warehouse,
              sim_demand, sim_merged, sim_metrics>>
control == <<pc, scenario_idx>>

\* demand_data = calculate_demand(orders_data)
CalculateDemand ==
    /\ pc = "stages"
    /\ raised = ""
    /\ "demand_data" \notin computed
    /\ demand_data' = calculate_demand(orders_data)
    /\ orders_data' = orders_after_calculate_demand(orders_data)
    /\ computed' = computed \cup {"demand_data"}
    /\ UNCHANGED <<control, warehouse_data, warehouse_columns,
                   orders_columns, tiePick,
                   validation, merged_data, recommendations, metrics,
                   scenario, raised>>

\* merged_data = compute_spi(warehouse_data, demand_data)
ComputeSpi ==
    /\ pc = "stages"
    /\ raised = ""
    /\ "demand_data" \in computed
    /\ "merged_data" \notin computed
    /\ merged_data' = compute_spi(warehouse_data, demand_data)
    /\ computed' = computed \cup {"merged_data"}
    /\ UNCHANGED <<control, inputs,
                   validation, demand_data, recommendations, metrics,
                   scenario, raised>>

\* recommendations = recommend_transfers(merged_data)
RecommendTransfers ==
    /\ pc = "stages"
    /\ raised = ""
    /\ "merged_data" \in computed
    /\ "recommendations" \notin computed
    /\ recommendations' = recommend_transfers(merged_data)
    /\ computed' = computed \cup {"recommendations"}
    /\ UNCHANGED <<control, inputs,
                   validation, demand_data, merged_data, metrics,
                   scenario, raised>>

\* metrics = calculate_metrics(merged_data)
CalculateMetrics ==
    /\ pc = "stages"
    /\ raised = ""
    /\ "merged_data" \in computed
    /\ "metrics" \notin computed
    /\ LET out == calculate_metrics(merged_data)
       IN  /\ raised' = out.raised
           /\ metrics' = IF out.raised = "" THEN out.returned[1] ELSE metrics
    /\ computed' = computed \cup {"metrics"}
    /\ UNCHANGED <<control, inputs, validation, demand_data, merged_data,
                   recommendations, scenario>>

Next ==
    \/ CalculateDemand
    \/ ComputeSpi
    \/ RecommendTransfers
    \/ CalculateMetrics

Spec == Init /\ [][Next]_vars

\* the main flow over larger warehouse tables, where several receivers and
\* several donors of one category meet
InitPressure ==
    /\ warehouse_data \in SeqsUpTo(WarehouseRows(Categories), MaxPressureRows)
    /\ orders_data \in OrdersTables(Categories, MaxPressureOrders)
    /\ warehouse_columns = AllWarehouseColumns
    /\ orders_columns = AllOrdersColumns
    /\ tiePick \in TiePicks
    /\ NothingCalled

SpecPressure == InitPressure /\ [][Next]_vars

\* the main flow over the stock of one warehouse in up to four categories
\* and no orders, where calculate_metrics has more categories to rank than
\* it keeps
InitMetrics ==
    /\ warehouse_data
         \in SeqsUpTo({WarehouseRow("Mumbai", cat, stock) :
                          cat \in AllCategories, stock \in StockLevels},
                      MaxMetricsRows)
    /\ orders_data = <<>>
    /\ warehouse_columns = AllWarehouseColumns
    /\ orders_columns = AllOrdersColumns
    /\ tiePick \in TiePicks
    /\ NothingCalled

SpecMetrics == InitMetrics /\ [][Next]_vars

----------------------------------------------------------------------------
(* The caller: one pass of the scenario loop, src/app.py lines 429-434 *)

main_flow == <<validation, demand_data, merged_data, recommendations,
               metrics>>

\* scenario percentages: demand in percent of the orders, cost in percent
DemandPcts == {-150, -30, 0, 80, 150}
CostPcts == {-10, 0}

\* sim_orders = simulate_demand_change(orders_data, scenario["demand"] / 100)
SimulateDemand ==
    /\ raised = ""
    /\ {"recommendations", "metrics"} \subseteq computed
    /\ "sim_orders" \notin computed
    /\ \E p \in DemandPcts :
         \E out \in simulate_demand_change(orders_data, p) :
            /\ demand_change' = p
            /\ raised' = out.raised
            /\ sim_orders' = IF out.raised = "" THEN out.returned[1]
                             ELSE sim_orders
    /\ computed' = computed \cup {"sim_orders"}
    /\ UNCHANGED <<control, inputs,
                   main_flow, cost_change, sim_warehouse, sim_demand,
                   sim_merged, sim_metrics>>

\* sim_warehouse = simulate_cost_change(warehouse_data, scenario["cost"] / 100)
SimulateCost ==
    /\ raised = ""
    /\ "sim_orders" \in computed
    /\ "sim_warehouse" \notin computed
    /\ \E p \in CostPcts :
            /\ cost_change' = p
            /\ sim_warehouse' = simulate_cost_change(warehouse_data, p)
    /\ computed' = computed \cup {"sim_warehouse"}
    /\ UNCHANGED <<control, inputs,
                   main_flow, demand_change, sim_orders, sim_demand,
                   sim_merged, sim_metrics, raised>>

\* sim_demand = calculate_demand(sim_orders)
SimCalculateDemand ==
    /\ raised = ""
    /\ "sim_warehouse" \in computed
    /\ "sim_demand" \notin computed
    /\ sim_demand' = calculate_demand(sim_orders)
    /\ sim_orders' = orders_after_calculate_demand(sim_orders)
    /\ computed' = computed \cup {"sim_demand"}
    /\ UNCHANGED <<control, inputs, main_flow, demand_change, cost_change,
                   sim_warehouse, sim_merged, sim_metrics, raised>>

\* sim_merged = compute_spi(sim_warehouse, sim_demand)
SimComputeSpi ==
    /\ raised = ""
    /\ "sim_demand" \in computed
    /\ "sim_merged" \notin computed
    /\ sim_merged' = compute_spi(sim_warehouse, sim_demand)
    /\ computed' = computed \cup {"sim_merged"}
    /\ UNCHANGED <<control, inputs,
                   main_flow, demand_change, cost_change, sim_orders,
                   sim_warehouse, sim_demand, sim_metrics, raised>>

\* sim_metrics = calculate_metrics(sim_merged)
SimCalculateMetrics ==
    /\ raised = ""
    /\ "sim_merged" \in computed
    /\ "sim_metrics" \notin computed
    /\ LET out == calculate_metrics(sim_merged)
       IN  /\ raised' = out.raised
           /\ sim_metrics' = IF out.raised = "" THEN out.returned[1]
                             ELSE sim_metrics
    /\ computed' = computed \cup {"sim_metrics"}
    /\ UNCHANGED <<control, inputs,
                   main_flow, demand_change, cost_change, sim_orders,
                   sim_warehouse, sim_demand, sim_merged>>

\* the scenarios run over tables of one category
InitScenario ==
    /\ warehouse_data \in SeqsUpTo(WarehouseRows({"Electronics"}),
                                   MaxScenarioRows)
    /\ orders_data \in OrdersTables({"Electronics"}, MaxScenarioOrders)
    /\ warehouse_columns = AllWarehouseColumns
    /\ orders_columns = AllOrdersColumns
    /\ tiePick \in TiePicks
    /\ NothingCalled

NextScenario ==
    \/ CalculateDemand
    \/ ComputeSpi
    \/ RecommendTransfers
    \/ CalculateMetrics
    \/ SimulateDemand
    \/ SimulateCost
    \/ SimCalculateDemand
    \/ SimComputeSpi
    \/ SimCalculateMetrics

SpecScenario == InitScenario /\ [][NextScenario]_vars

----------------------------------------------------------------------------
(* The caller: validation, src/app.py line 151 *)

\* rows whose stock and cost cells may be negative
ValidateRows ==
    {[WarehouseRow("Mumbai", "Electronics", stock)
        EXCEPT !.Storage_Cost_per_Unit = cost] :
        stock \in {-5 * Scale, 3 * Scale},
        cost \in {-1 * CostScale, CostOf["Mumbai"]}}

\* the column sets that lack at most MaxMissing of the required columns
ColumnSets(required) ==
    {cols \in SUBSET SeqToSet(required) :
        Cardinality(SeqToSet(required) \ cols) <= MaxMissing}

\* is_valid, errors = validate_data(warehouse_data, orders_data)
ValidateData ==
    /\ raised = ""
    /\ "validation" \notin computed
    /\ validation' = validate_data(warehouse_columns, warehouse_data,
                                   orders_columns, orders_data)
    /\ raised' = validation'.raised
    /\ computed' = computed \cup {"validation"}
    /\ UNCHANGED <<control, inputs,
                   demand_data, merged_data, recommendations, metrics,
                   scenario>>

InitValidate ==
    /\ warehouse_data \in SeqsUpTo(ValidateRows, MaxValidateRows)
    /\ orders_data \in OrdersTables({"Electronics"}, 1)
    /\ warehouse_columns \in ColumnSets(required_warehouse_cols)
    /\ orders_columns \in ColumnSets(required_orders_cols)
    /\ tiePick = "first"
    /\ NothingCalled

NextValidate == ValidateData

SpecValidate == InitValidate /\ [][NextValidate]_vars

----------------------------------------------------------------------------
(* The caller: main, src/app.py lines 149-171 and 422-434 *)

\* the positions of the two sliders that main reads
MainDemandPcts == {-50, 0, 50}
MainCostPcts == {-30, 0, 30}

\* rows as a file may hold them: stock and cost cells may be negative or 0
MainRows ==
    {[WarehouseRow("Mumbai", "Electronics", stock)
        EXCEPT !.Storage_Cost_per_Unit = cost] :
        stock \in {-5 * Scale, 3 * Scale},
        cost \in {-1 * CostScale, 0, CostOf["Mumbai"]}}

\* is_valid, errors = validate_data(warehouse_data, orders_data), and the
\* return that follows when is_valid is false
MainValidate ==
    /\ pc = "validate"
    /\ validation' = validate_data(warehouse_columns, warehouse_data,
                                   orders_columns, orders_data)
    /\ raised' = validation'.raised
    /\ computed' = computed \cup {"validation"}
    /\ pc' = IF validation'.valid THEN "simulate_demand" ELSE "returned"
    /\ UNCHANGED <<inputs, demand_data, merged_data, recommendations, metrics,
                   scenario, scenario_idx>>

\* if demand_change != 0:
\*     orders_data = simulate_demand_change(orders_data, demand_change / 100)
MainSimulateDemand ==
    /\ pc = "simulate_demand"
    /\ raised = ""
    /\ IF demand_change # 0
       THEN \E out \in simulate_demand_change(orders_data, demand_change) :
               /\ raised' = out.raised
               /\ orders_data' = IF out.raised = "" THEN out.returned[1]
                                  ELSE orders_data
               /\ computed' = computed \cup {"simulate_demand_change"}
       ELSE UNCHANGED <<orders_data, computed, raised>>
    /\ pc' = "simulate_cost"
    /\ UNCHANGED <<warehouse_data, warehouse_columns, orders_columns, tiePick,
                   main_flow, scenario, scenario_idx>>

\* if cost_change != 0:
\*     warehouse_data = simulate_cost_change(warehouse_data, cost_change / 100)
MainSimulateCost ==
    /\ pc = "simulate_cost"
    /\ raised = ""
    /\ IF cost_change # 0
       THEN /\ warehouse_data' = simulate_cost_change(warehouse_data,
                                                      cost_change)
            /\ computed' = computed \cup {"simulate_cost_change"}
       ELSE UNCHANGED <<warehouse_data, computed>>
    /\ pc' = "stages"
    /\ UNCHANGED <<orders_data, warehouse_columns, orders_columns, tiePick,
                   main_flow, scenario, scenario_idx, raised>>

\* the list that the scenario loop walks
scenarios ==
    <<[name |-> "Best Case", demand |-> -20, cost |-> -10],
      [name |-> "Worst Case", demand |-> 30, cost |-> 15],
      [name |-> "Current", demand |-> demand_change, cost |-> cost_change]>>

\* one pass of the scenario loop over the tables main ended up with: the five
\* calls of its body, cut short by the first that raises.  (Lines 388-390
\* send the same orders_data and warehouse_data through the stages once more
\* and bind display values only.)
MainScenario ==
    /\ pc = "stages"
    /\ raised = ""
    /\ {"recommendations", "metrics"} \subseteq computed
    /\ scenario_idx < Len(scenarios)
    /\ scenario_idx' = scenario_idx + 1
    /\ \E out \in simulate_demand_change(orders_data,
                                          scenarios[scenario_idx + 1].demand) :
          IF out.raised # ""
          THEN /\ raised' = out.raised
               /\ UNCHANGED <<computed, sim_orders, sim_warehouse, sim_demand,
                              sim_merged, sim_metrics>>
          ELSE LET orders_sim == out.returned[1]
                   warehouse_sim ==
                       simulate_cost_change(warehouse_data,
                           scenarios[scenario_idx + 1].cost)
                   demand == calculate_demand(orders_sim)
                   merged == compute_spi(warehouse_sim, demand)
                   m == calculate_metrics(merged)
               IN  /\ sim_orders' = orders_after_calculate_demand(orders_sim)
                   /\ sim_warehouse' = warehouse_sim
                   /\ sim_demand' = demand
                   /\ sim_merged' = merged
                   /\ raised' = m.raised
                   /\ sim_metrics' = IF m.raised = "" THEN m.returned[1]
                                     ELSE sim_metrics
                   /\ computed' = computed \cup
                         {"sim_orders", "sim_warehouse", "sim_demand",
                          "sim_merged"} \cup
                         (IF m.raised = "" THEN {"sim_metrics"} ELSE {})
    /\ UNCHANGED <<inputs, main_flow, demand_change, cost_change, pc>>

\* the tables of the two files, whatever they hold, and the two sliders
InitMain ==
    /\ warehouse_data \in SeqsUpTo(MainRows, MaxMainRows)
    /\ orders_data \in OrdersTables({"Electronics"}, MaxMainOrders)
    /\ warehouse_columns
         \in {AllWarehouseColumns \ missing :
                 missing \in {{}, {"Current_Stock_Units"},
                              {"Storage_Cost_per_Unit"}}}
    /\ orders_columns
         \in {AllOrdersColumns \ missing : missing \in {{}, {"Order_Date"}}}
    /\ tiePick \in TiePicks
    /\ NoResults
    /\ demand_change \in MainDemandPcts
    /\ cost_change \in MainCostPcts
    /\ pc = "validate"

NextMain ==
    \/ MainValidate
    \/ MainSimulateDemand
    \/ MainSimulateCost
    \/ CalculateDemand
    \/ ComputeSpi
    \/ RecommendTransfers
    \/ CalculateMetrics
    \/ MainScenario

SpecMain == InitMain /\ [][NextMain]_vars

----------------------------------------------------------------------------
(* Properties *)

\* the orders whose (Origin, Product_Category) is that of the row r
OrdersFor(r) ==
    {k \in DOMAIN orders_data :
        /\ orders_data[k].Origin = r.Location
        /\ orders_data[k].Product_Category = r.Product_Category}

\* C1: compute_spi(warehouse, calculate_demand(orders)) has exactly one row
\* per warehouse row, matched by an order or not.
C1_OneRowPerWarehouseRow ==
    "merged_data" \in computed => Len(merged_data) = Len(warehouse_data)

\* a pressure table holding a row no order matches and a row an order matches
C1_Witness ==
    /\ "merged_data" \in computed
    /\ \E i, j \in DOMAIN merged_data :
          merged_data[i].Origin = NaN /\ merged_data[j].Origin # NaN

\* C2: in every row of compute_spi's result, Monthly_Demand is the number of
\* orders with the row's (Location, Product_Category), 0 when there is none,
\* and SPI = (Current_Stock_Units - Reorder_Level) - Monthly_Demand exactly.
C2_DemandCountAndSpi ==
    "merged_data" \in computed =>
        \A i \in DOMAIN merged_data :
            LET r == merged_data[i]
            IN  /\ r.Monthly_Demand = Cardinality(OrdersFor(r)) * Scale
                /\ r.SPI = (r.Current_Stock_Units - r.Reorder_Level)
                           - r.Monthly_Demand

\* a pressure table with a row of two orders and fractional SPI, and a row
\* without orders
C2_Witness ==
    /\ "merged_data" \in computed
    /\ \E i, j \in DOMAIN merged_data :
          /\ merged_data[i].Monthly_Demand = 2 * Scale
          /\ merged_data[i].SPI % Scale # 0
          /\ merged_data[j].Monthly_Demand = 0

\* the row r is the receiver and the row d the donor that rec names
Names(rec, r, d) ==
    /\ r.SPI < 0
    /\ d.SPI > 0
    /\ r.Product_Category = rec.Product_Category
    /\ d.Product_Category = rec.Product_Category
    /\ rec.To_Warehouse = r.Warehouse_ID
    /\ rec.To_Location = r.Location
    /\ rec.Receiver_SPI = Round2(r.SPI, Scale)
    /\ rec.From_Warehouse = d.Warehouse_ID
    /\ rec.From_Location = d.Location
    /\ rec.Donor_SPI = Round2(d.SPI, Scale)

\* C3: every recommendation's Units is an integer with
\* 0 <= Units <= min(|receiver SPI|, donor SPI) for its receiver and donor rows.
C3_UnitsWithinImbalance ==
    "recommendations" \in computed =>
        \A k \in DOMAIN recommendations :
            LET rec == recommendations[k]
            IN  /\ rec.Units \in Nat
                /\ \E i, j \in DOMAIN merged_data :
                      /\ Names(rec, merged_data[i], merged_data[j])
                      /\ rec.Units * Scale
                           <= Min(Abs(merged_data[i].SPI), merged_data[j].SPI)

\* a recommendation whose Units is below a fractional imbalance, and one
\* whose receiver lacks more than the donor has
C3_Witness ==
    /\ "recommendations" \in computed
    /\ \E k, l \in DOMAIN recommendations :
          /\ recommendations[k].Units * 100
                < Min(-recommendations[k].Receiver_SPI,
                      recommendations[k].Donor_SPI)
          /\ recommendations[l].Units > 0
          /\ -recommendations[l].Receiver_SPI > recommendations[l].Donor_SPI

\* the four checks, as conditions on the tables handed to validate_data
WarehouseColumnsMissing == AllWarehouseColumns \ warehouse_columns # {}
OrdersColumnsMissing == AllOrdersColumns \ orders_columns # {}
StockNegative ==
    /\ "Current_Stock_Units" \in warehouse_columns
    /\ \E i \in DOMAIN warehouse_data :
          warehouse_data[i].Current_Stock_Units < 0
CostNegative ==
    /\ "Storage_Cost_per_Unit" \in warehouse_columns
    /\ \E i \in DOMAIN warehouse_data :
          warehouse_data[i].Storage_Cost_per_Unit < 0

\* the message of a check when it failed
MessageIf(failed, message) == IF failed THEN <<message>> ELSE <<>>

C5_InputsNotMutated ==
    [][orders_data' = orders_data /\ warehouse_data' = warehouse_data]_vars

\* the rows of the pressure table with SPI < 0
ShortageRows == {i \in DOMAIN merged_data : merged_data[i].SPI < 0}

\* C6: calculate_metrics on a pressure table without rows fails with a
\* division by zero and returns nothing; on a table with rows,
\* shortage_percentage is 100 * (rows with SPI < 0) / (rows) to the nearest
\* hundredth.
C6_ShortagePercentage ==
    "metrics" \in computed =>
        IF Len(merged_data) = 0
        THEN raised = "ZeroDivisionError" /\ metrics = <<>>
        ELSE /\ raised = ""
             /\ 2 * Abs(metrics.shortage_percentage * Len(merged_data)
                        - 100 * 100 * Cardinality(ShortageRows))
                  <= Len(merged_data)

\* calculate_metrics was called on a pressure table without rows
C6_Witness ==
    /\ "metrics" \in computed
    /\ merged_data = <<>>
    /\ raised = "ZeroDivisionError"

\* |pct| * N in hundredths of a row, for the scenario's percentage
ScaledChange == Len(orders_data) * Abs(demand_change)

\* the rows of the caller's orders table
OrderRowsOf == {orders_data[i] : i \in DOMAIN orders_data}

\* what the row counts of C7 say about sim_orders when |pct| * N counts as
\* `change` rows
RowCountIs(change) ==
    LET N == Len(orders_data)
    IN  /\ demand_change > 0 =>
            /\ Len(sim_orders) = N + change
            /\ SubSeq(sim_orders, 1, N) = orders_data
            /\ \A k \in DOMAIN sim_orders : sim_orders[k] \in OrderRowsOf
        /\ demand_change < 0 =>
            /\ Len(sim_orders) = Max(N - change, 1)
            /\ Len(sim_orders) >= 1
            /\ \A k \in DOMAIN sim_orders : sim_orders[k] \in OrderRowsOf
            /\ \A a, b \in DOMAIN sim_orders :
                  a # b => sim_orders[a] # sim_orders[b]

\* C7 as stated: for N >= 1 orders, simulate_demand_change returns
\* N + round(|pct| * N) rows when pct > 0 (the originals, then sampled rows)
\* and max(N - round(|pct| * N), 1) distinct input rows when pct < 0.
C7_RoundedRowCount ==
    ("sim_orders" \in computed /\ Len(orders_data) >= 1) =>
        RowCountIs(Round0(ScaledChange, 100))

\* C7 as amended: for N >= 1 orders, simulate_demand_change returns
\* N + min(int(|pct| * N), N) rows when pct > 0 (the originals, then sampled
\* rows) and max(N - int(|pct| * N), 1) distinct input rows when pct < 0,
\* int() dropping the fraction; at least one row survives.
C7_TruncatedRowCount ==
    ("sim_orders" \in computed /\ Len(orders_data) >= 1) =>
        LET whole == CHOOSE c \in 0..ScaledChange :
                        c * 100 <= ScaledChange /\ ScaledChange < (c + 1) * 100
        IN  IF demand_change > 0
            THEN RowCountIs(Min(whole, Len(orders_data)))
            ELSE RowCountIs(whole)

\* two orders grown by 80 percent: one row is appended, not round(1.6) = 2
C7_Witness ==
    /\ "sim_orders" \in computed
    /\ demand_change = 80
    /\ Len(orders_data) = 2
    /\ Len(sim_orders) = 3

\* C8: with pct = 0 simulate_demand_change and simulate_cost_change return
\* tables equal to their inputs (same rows, order and values), and the
\* pressure table, recommendations and metrics computed from them equal those
\* of the unperturbed tables.
C8_ZeroPctIsNoOp ==
    /\ ("sim_orders" \in computed /\ demand_change = 0) =>
            sim_orders = orders_data
    /\ ("sim_warehouse" \in computed /\ cost_change = 0) =>
            sim_warehouse = warehouse_data
    /\ ("sim_metrics" \in computed /\ demand_change = 0 /\ cost_change = 0) =>
            /\ sim_merged = merged_data
            /\ recommend_transfers(sim_merged) = recommendations
            /\ sim_metrics = metrics

\* a scenario of 0 percent for both, run to its metrics, over two orders and
\* a pressure table that yields a recommendation
C8_Witness ==
    /\ "sim_metrics" \in computed
    /\ demand_change = 0
    /\ cost_change = 0
    /\ Len(orders_data) = 2
    /\ recommendations # <<>>

\* the rows that can give to the row at position i: SPI > 0, same category
Donors(i) ==
    {j \in DOMAIN merged_data :
        /\ merged_data[j].SPI > 0
        /\ merged_data[j].Product_Category = merged_data[i].Product_Category}

\* the donors of row i that hold the largest SPI
MaxDonors(i) ==
    {j \in Donors(i) :
        \A h \in Donors(i) : merged_data[j].SPI >= merged_data[h].SPI}

\* the receivers that have a donor, in table order
Receivers ==
    SelectIdx(merged_data,
              LAMBDA r : r.SPI < 0
                         /\ \E j \in DOMAIN merged_data :
                               /\ merged_data[j].SPI > 0
                               /\ merged_data[j].Product_Category
                                    = r.Product_Category, 1)

\* rec names the row d as its donor
FromRow(rec, d) ==
    /\ rec.From_Warehouse = d.Warehouse_ID
    /\ rec.From_Location = d.Location
    /\ rec.Product_Category = d.Product_Category
    /\ rec.Donor_SPI = Round2(d.SPI, Scale)

FirstOf(S) == CHOOSE j \in S : \A h \in S : j <= h

\* C9 as stated: the donor of each receiver that has one is a same-category
\* row of maximum SPI, and of several such rows the first in table order.
C9_FirstMaxDonor ==
    "recommendations" \in computed =>
        /\ Len(recommendations) = Len(Receivers)
        /\ \A k \in DOMAIN Receivers :
              FromRow(recommendations[k],
                      merged_data[FirstOf(MaxDonors(Receivers[k]))])

\* C9 as amended: the donor of each receiver that has one is a same-category
\* row whose SPI is the maximum among the same-category rows with SPI > 0;
\* which of several rows sharing the maximum is taken is left to the sort.
C9_MaxDonor ==
    "recommendations" \in computed =>
        /\ Len(recommendations) = Len(Receivers)
        /\ \A k \in DOMAIN Receivers :
              \E j \in MaxDonors(Receivers[k]) :
                  FromRow(recommendations[k], merged_data[j])

\* a receiver with two donors sharing the maximum, the later one taken
C9_Witness ==
    /\ "recommendations" \in computed
    /\ Len(recommendations) = Len(Receivers)
    /\ \E k \in DOMAIN Receivers :
          /\ Cardinality(MaxDonors(Receivers[k])) = 2
          /\ ~FromRow(recommendations[k],
                      merged_data[FirstOf(MaxDonors(Receivers[k]))])

\* C10: a donor's surplus is not reduced between receivers: the
\* recommendations of one category all name the same donor row with the same
\* Donor_SPI, the full SPI of a row holding the category's largest surplus.
C10_DonorNotDecremented ==
    "recommendations" \in computed =>
        /\ \A j, k \in DOMAIN recommendations :
              recommendations[j].Product_Category
                = recommendations[k].Product_Category =>
                  /\ recommendations[j].From_Warehouse
                       = recommendations[k].From_Warehouse
                  /\ recommendations[j].From_Location
                       = recommendations[k].From_Location
                  /\ recommendations[j].Donor_SPI
                       = recommendations[k].Donor_SPI
        /\ \A k \in DOMAIN recommendations :
              \E i, d \in DOMAIN merged_data :
                  /\ d \in MaxDonors(i)
                  /\ FromRow(recommendations[k], merged_data[d])

\* two recommendations naming one donor whose Units together exceed its SPI
C10_Witness ==
    /\ "recommendations" \in computed
    /\ \E j, k \in DOMAIN recommendations :
          /\ j # k
          /\ recommendations[j].From_Warehouse
               = recommendations[k].From_Warehouse
          /\ recommendations[j].Product_Category
               = recommendations[k].Product_Category
          /\ (recommendations[j].Units + recommendations[k].Units) * 100
               > recommendations[j].Donor_SPI

\* rec is addressed to the row r
ToRow(rec, r) ==
    /\ rec.To_Warehouse = r.Warehouse_ID
    /\ rec.To_Location = r.Location
    /\ rec.Product_Category = r.Product_Category
    /\ rec.Receiver_SPI = Round2(r.SPI, Scale)

\* C11: recommend_transfers emits one recommendation for each row with
\* SPI < 0 that has a same-category row with SPI > 0 and none for the other
\* rows, in the table order of the receivers, each carrying its receiver's
\* warehouse, location and category.
C11_OnePerReceiverInOrder ==
    "recommendations" \in computed =>
        /\ Len(recommendations) = Len(Receivers)
        /\ \A k \in DOMAIN Receivers :
              ToRow(recommendations[k], merged_data[Receivers[k]])

\* a shortage row of a category without donor that got no recommendation,
\* standing in the table before a receiver that got one
C11_Witness ==
    /\ "recommendations" \in computed
    /\ Len(recommendations) = 1
    /\ Len(Receivers) = 1
    /\ \E i \in DOMAIN merged_data :
          merged_data[i].SPI < 0 /\ Donors(i) = {} /\ i < Receivers[1]

\* C12: in every recommendation Estimated_Saving_INR is the emitted Units
\* times (donor Storage_Cost_per_Unit - receiver Storage_Cost_per_Unit),
\* rounded to 2 decimals, also for fractional SPI values.
C12_SavingFromEmittedUnits ==
    "recommendations" \in computed =>
        \A k \in DOMAIN recommendations :
            k \in DOMAIN Receivers =>
                \E d \in MaxDonors(Receivers[k]) :
                    /\ FromRow(recommendations[k], merged_data[d])
                    /\ recommendations[k].Estimated_Saving_INR
                         = Round2(recommendations[k].Units
                                    * (merged_data[d].Storage_Cost_per_Unit
                                         - merged_data[Receivers[k]]
                                               .Storage_Cost_per_Unit),
                                  CostScale)

\* the categories that occur in merged_data and the smallest SPI of each
CategoriesOf == {merged_data[i].Product_Category : i \in DOMAIN merged_data}
MinSpiOf(c) ==
    CHOOSE m \in {merged_data[i].SPI : i \in DOMAIN merged_data} :
        /\ \E i \in DOMAIN merged_data :
              merged_data[i].Product_Category = c /\ merged_data[i].SPI = m
        /\ \A i \in DOMAIN merged_data :
              merged_data[i].Product_Category = c => m <= merged_data[i].SPI

\* top maps distinct categories to their smallest SPI, in ascending order,
\* and no category left out has a smaller minimum than one that is in
SmallestMinimaAscending(top) ==
    /\ \A k \in DOMAIN top :
          /\ top[k].Product_Category \in CategoriesOf
          /\ top[k].SPI = MinSpiOf(top[k].Product_Category)
    /\ \A j, k \in DOMAIN top :
          /\ j < k => top[j].SPI <= top[k].SPI
          /\ j # k => top[j].Product_Category # top[k].Product_Category
    /\ \A c \in CategoriesOf :
          (\A k \in DOMAIN top : top[k].Product_Category # c) =>
              \A k \in DOMAIN top : top[k].SPI <= MinSpiOf(c)

\* C13 as stated: top_risk_categories has exactly 3 entries, each mapping a
\* category to the minimum SPI of its rows, holding the categories with the
\* smallest minima in ascending order.
C13_ExactlyThree ==
    ("metrics" \in computed /\ raised = "") =>
        /\ Len(metrics.top_risk_categories) = 3
        /\ SmallestMinimaAscending(metrics.top_risk_categories)

\* C13 amended: top_risk_categories has min(3, number of categories in the
\* table) entries, each mapping a category to the minimum SPI of its rows,
\* holding the categories with the smallest minima in ascending order.
C13_AtMostThree ==
    ("metrics" \in computed /\ raised = "") =>
        /\ Len(metrics.top_risk_categories)
             = Min(3, Cardinality(CategoriesOf))
        /\ SmallestMinimaAscending(metrics.top_risk_categories)

\* four categories ranked, three kept, and the one left out has a larger
\* minimum than the last one kept
C13_Witness ==
    /\ "metrics" \in computed
    /\ raised = ""
    /\ Cardinality(CategoriesOf) = 4
    /\ Len(metrics.top_risk_categories) = 3
    /\ \E c \in CategoriesOf :
          MinSpiOf(c) > metrics.top_risk_categories[3].SPI

\* no cell of Current_Stock_Units or Storage_Cost_per_Unit is negative
NoNegative(table) ==
    \A i \in DOMAIN table :
        /\ table[i].Current_Stock_Units >= 0
        /\ table[i].Storage_Cost_per_Unit >= 0

\* C14: in main, validate_data runs before every other stage; when it
\* reports invalid, main returns with no stage called; and every warehouse
\* table that reaches compute_spi, in the main flow and in the scenario loop,
\* has no negative Current_Stock_Units and no negative
\* Storage_Cost_per_Unit, although the simulated tables are not validated.
C14_ValidatedBeforeStages ==
    /\ pc = "validate" => computed = {}
    /\ pc # "validate" => "validation" \in computed
    /\ computed \ {"validation"} # {} => validation.valid
    /\ ("validation" \in computed /\ ~validation.valid) =>
          /\ pc = "returned"
          /\ computed = {"validation"}
          /\ ~ENABLED NextMain
    /\ "merged_data" \in computed =>
          NoNegative(warehouse_data) /\ NoNegative(merged_data)
    /\ "sim_merged" \in computed =>
          NoNegative(sim_warehouse) /\ NoNegative(sim_merged)

\* the three passes of the scenario loop ran with the cost slider at -30%:
\* the last pass lowered a cost that the slider had lowered already
C14_Witness ==
    /\ scenario_idx = 3
    /\ raised = ""
    /\ cost_change = -30
    /\ "simulate_cost_change" \in computed
    /\ \E i \in DOMAIN sim_warehouse :
          /\ sim_warehouse[i].Storage_Cost_per_Unit > 0
          /\ sim_warehouse[i].Storage_Cost_per_Unit
               < warehouse_data[i].Storage_Cost_per_Unit

====
